---- MODULE Spec2Model ----
(***************************************************************************)
(* Beetle-ball coupling and ball-state physics of the dung beetle game.    *)
(*                                                                         *)
(* The state is modelled in groups, under these specifications:            *)
(*   Spec      the DungBeetle <-> Game.dungBall coupling: attachToBall,    *)
(*             detachFromBall, pushBall (physics-implementation.md), push, *)
(*             Controls.update and gameLoop (game-architecture.js);        *)
(*   SpecLink  the same attach/detach operations with two balls, and an    *)
(*             attachToBall that the engine refuses;                       *)
(*   SpecPush  pushBall and a physics step in which the pushes are the     *)
(*             only force on the ball;                                     *)
(*   SpecBall  the DungBall entity (growth in update, damage);             *)
(*   SpecArch  the DungBall of game-architecture.js (grow, damage, its     *)
(*             physics body, terrain interactions, the physics step);      *)
(*   SpecUpgrade                                                           *)
(*             DungBeetle.upgrade with grow and damage of that ball;       *)
(*   SpecLoop  the frame loop Game.animate with Controls and the           *)
(*             direct-position Beetle;                                     *)
(*   SpecBeetle                                                            *)
(*             Beetle.setMovement and Beetle.update called on their own;   *)
(*   SpecEco   gameLoop with the distance travelled north and the          *)
(*             ecosystem transitions;                                      *)
(*   SpecWorld PhysicsWorld (init, addRigidBody, removeRigidBody,          *)
(*             dispose) with Ground;                                       *)
(*   SpecWait  the wait of Game.init (core/Game.js) for the physics        *)
(*             world, with a fair timer;                                   *)
(*   SpecControls                                                          *)
(*             the window listeners of Controls;                           *)
(*   SpecLife  init, dispose, the animation frames and waitForInit of      *)
(*             one Game, with fair timers, frames and promises.            *)
(*                                                                         *)
(* Units.  Lengths of the DungBall entity are in 1/400 m (0.0025 m), so    *)
(* that radius 0.5 = 200, growthRate 0.005 = 2, maxRadius 3 = 1200.        *)
(* Sizes of the game-architecture ball are in 1/20 m, its masses in        *)
(* 1/40 kg.  Velocities of the bodies are in 1/2 m/s, impulses in          *)
(* 1/2 N s, forces in N.  In the frame loop, times are in ms, the          *)
(* velocity of the beetle is in m/s and its position in mm.  The height    *)
(* of the beetle is in mm, distanceNorth in m.                             *)
(***************************************************************************)
EXTENDS Integers, Sequences, FiniteSets

VARIABLES
    \* ---- DungBeetle (game-architecture.js, physics-implementation.md)
    attachedBall,      \* this.attachedBall: NoBall or a ball
    constraint,        \* this.constraint: NoConstraint or a constraint id
    worldConstraints,  \* constraints registered with physicsWorld: records [id, ball]
    stats,             \* this.stats
    beetleVel,         \* linear velocity of the beetle body <<x, y, z>>
    \* ---- the body of Game.dungBall
    ballVel,           \* linear velocity <<x, y, z>>
    ballForce,         \* force accumulated by applyCentralForce since the last step <<x, z>>
    \* ---- DungBall entity
    body,              \* TRUE iff initPhysics created this.body
    currentRadius,     \* this.currentRadius
    shapeRadius,       \* radius of the body's btSphereShape
    bodyMass,          \* mass given to the body, a fraction <<num, den>>
    bodyVel,           \* velocity of this.body: [lin, ang]
    \* ---- DungBall of game-architecture.js
    size,              \* this.size
    mass,              \* this.mass
    piecesCalls,       \* number of createBrokenPieces calls made by the last operation
    impactGiven,       \* TRUE iff the caller of the last damage supplied an impact point
    ballBody,          \* this.body of the ball: [size, massOf]
    worldBodies,       \* bodies of the ball registered with physicsWorld
    upgradeCall,       \* the last DungBeetle.upgrade call: [stat, amount, result]
    \* ---- Game.animate, Controls, Beetle (direct position updates)
    isInitialized,     \* Game.isInitialized
    lastTime,          \* Game.lastTime
    controlsKeys,      \* Controls.keys
    velocity,          \* Beetle.velocity.z
    position,          \* Beetle.position.z
    solverDts,         \* time steps handed to world.stepSimulation by the last frame
    positionY,         \* Beetle.position.y
    velocityY,         \* Beetle.velocity.y
    \* ---- Game of game-architecture.js: progress to the north
    distanceNorth,     \* Game.stats.distanceNorth
    currentEcosystem,  \* Game.currentEcosystem
    \* ---- the wait for the physics world in Game.init (src/core/Game.js)
    attempts,          \* attempts of the polling closure
    waitState,         \* state of the promise awaited: none, pending, resolved, rejected
    \* ---- PhysicsWorld, the Ammo heap, Ground
    physicsWorld,      \* the PhysicsWorld object and the engine state behind it
    ammoPending,       \* TRUE iff an Ammo.default() promise of init is unsettled
    userData,          \* object.userData.physicsBody of each Three.js object, 0 if unset
    groundBody,        \* Ground.physicsBody, 0 if null
    nextBody,          \* the next btRigidBody the heap hands out
    bodyCall,          \* the last addRigidBody / removeRigidBody call: [op, object]
    \* ---- Game (init, dispose, waitForInit) and the animation frames
    isInitializing,    \* Game.isInitializing
    initAwaiting,      \* TRUE iff Game.init is suspended at await physicsWorld.init()
    pendingFrames,     \* requestAnimationFrame callbacks of animate not yet run
    waiter,            \* state of the promise made by Game.waitForInit
    \* ---- window event listeners and Controls objects
    windowListeners,   \* listeners installed on window: records [type, fn, controls]
    nextFn,            \* the next function object a bind() call makes
    controlsObjs,      \* the Controls objects made so far: sequence of [keys, disposed]
    \* ---- bookkeeping
    lastOp             \* name of the operation that produced this state

vars == <<attachedBall, constraint, worldConstraints, stats, beetleVel, ballVel,
          ballForce, body, currentRadius, shapeRadius, bodyMass, bodyVel,
          size, mass, piecesCalls, impactGiven, ballBody, worldBodies,
          upgradeCall, isInitialized, lastTime, controlsKeys, velocity, position,
          solverDts, positionY, velocityY, distanceNorth, currentEcosystem,
          attempts, waitState, physicsWorld, ammoPending, userData, groundBody,
          nextBody, bodyCall, isInitializing, initAwaiting, pendingFrames, waiter,
          windowListeners, nextFn, controlsObjs, lastOp>>

beetleVars == <<attachedBall, constraint, worldConstraints, stats, beetleVel>>
gameBallVars == <<ballVel, ballForce>>
entityVars == <<body, currentRadius, shapeRadius, bodyMass, bodyVel>>
archVars == <<size, mass, piecesCalls, impactGiven>>
physBodyVars == <<ballBody, worldBodies>>
loopVars == <<isInitialized, lastTime, controlsKeys, velocity, position, solverDts>>
heightVars == <<positionY, velocityY>>
ecoVars == <<distanceNorth, currentEcosystem>>
waitVars == <<attempts, waitState>>
physVars == <<physicsWorld, ammoPending, userData, groundBody, nextBody, bodyCall>>
gameVars == <<isInitializing, initAwaiting, pendingFrames, waiter>>
listenerVars == <<windowListeners, nextFn, controlsObjs>>
lifecycleVars == <<waitVars, physVars, gameVars, listenerVars>>

Max(a, b) == IF a >= b THEN a ELSE b
Abs(a) == IF a >= 0 THEN a ELSE -a

RECURSIVE GCD(_, _)
GCD(a, b) == IF b = 0 THEN a ELSE GCD(b, a % b)

(***************************************************************************)
(* DungBall entity                                                         *)
(***************************************************************************)
radius == 200
growthRate == 2
maxRadius == 1200
massScale == 2

\* Damage amounts tried, in 1/400 m: 1 is off the growth grid, 401 is a
\* partial loss, the largest exceeds every radius the ball can have.
MaxDamage == 1300
DamageAmounts == {1, 401, MaxDamage}

\* Linear and angular velocities the physics step can leave the entity's
\* body with.
AtRest == [lin |-> <<0, 0, 0>>, ang |-> <<0, 0, 0>>]
BodyVels == {AtRest,
             [lin |-> <<6, -2, 8>>, ang |-> <<3, 0, -2>>],
             [lin |-> <<0, 0, -16>>, ang |-> <<0, 1, 0>>]}

\* this.massScale * Math.pow(r / this.radius, 3), as an exact fraction.
MassOf(r) ==
    LET g == GCD(radius * radius * radius, massScale)
    IN  <<(massScale \div g) * r * r * r, (radius * radius * radius) \div g>>

\* Math.max(this.radius, this.currentRadius - amount) without the floor.
DamagedRadius_noFloor(r, amount) == r - amount

DamagedRadius(r, amount) == Max(radius, r - amount)

EntityBall_update ==
    /\ lastOp' = "update"
    /\ IF body /\ currentRadius < maxRadius
       THEN /\ currentRadius' = currentRadius + growthRate
            /\ shapeRadius' = currentRadius'
            /\ bodyMass' = MassOf(currentRadius')
       ELSE UNCHANGED <<currentRadius, shapeRadius, bodyMass>>
    /\ UNCHANGED <<body, bodyVel, beetleVars, gameBallVars, archVars>>
    /\ UNCHANGED <<physBodyVars, upgradeCall, loopVars>>
    /\ UNCHANGED <<heightVars, ecoVars, lifecycleVars>>

\* damage as it would be if the body were rebuilt from scratch instead of
\* resized in place: the new body starts at rest.
EntityBall_damage_rebuilt(amount) ==
    /\ lastOp' = "damage"
    /\ currentRadius' = DamagedRadius(currentRadius, amount)
    /\ IF body
       THEN /\ shapeRadius' = currentRadius'
            /\ bodyMass' = MassOf(currentRadius')
            /\ bodyVel' = AtRest
       ELSE UNCHANGED <<shapeRadius, bodyMass, bodyVel>>
    /\ UNCHANGED <<body, beetleVars, gameBallVars, archVars>>
    /\ UNCHANGED <<physBodyVars, upgradeCall, loopVars>>
    /\ UNCHANGED <<heightVars, ecoVars, lifecycleVars>>

\* shape.setRadius and body.setMassProps act on the live body, whose
\* velocity is not written.
EntityBall_damage(amount) ==
    /\ lastOp' = "damage"
    /\ currentRadius' = DamagedRadius(currentRadius, amount)
    /\ IF body
       THEN /\ shapeRadius' = currentRadius'
            /\ bodyMass' = MassOf(currentRadius')
       ELSE UNCHANGED <<shapeRadius, bodyMass>>
    /\ UNCHANGED <<body, bodyVel, beetleVars, gameBallVars, archVars>>
    /\ UNCHANGED <<physBodyVars, upgradeCall, loopVars>>
    /\ UNCHANGED <<heightVars, ecoVars, lifecycleVars>>

\* PhysicsWorld stepping the world: the engine moves the entity's body.
EntityBall_step ==
    /\ body
    /\ lastOp' = "step"
    /\ bodyVel' \in BodyVels
    /\ UNCHANGED <<body, currentRadius, shapeRadius, bodyMass>>
    /\ UNCHANGED <<beetleVars, gameBallVars, archVars>>
    /\ UNCHANGED <<physBodyVars, upgradeCall, loopVars>>
    /\ UNCHANGED <<heightVars, ecoVars, lifecycleVars>>

(***************************************************************************)
(* DungBall of game-architecture.js                                        *)
(***************************************************************************)
initialSize == 20
initialMass == 40
minSize == 10
minMass == 20
\* mass changes by amount * 1.5: 3/40 kg for each 1/20 m
massPerSize == 3

\* Growth is unbounded in the code; the model stops growing at MaxSize.
MaxSize == 30
GrowAmounts == {1, 5}
\* 1 is the shallow-water damage 0.05; MaxSize + 1 exceeds every size.
ArchDamageAmounts == {1, 10, MaxSize + 1}

\* The body createBallPhysics(position, newSize, calculateMass(newSize))
\* returns: a sphere of radius newSize / 2.  calculateMass is not defined in
\* the sources; the body records the size its mass was computed from.
BodyFor(newSize) == [size |-> newSize, massOf |-> newSize]

\* updateBallSize without the removeRigidBody of the old body.
UpdateBallSize_noRemove(newSize) ==
    /\ ballBody' = BodyFor(newSize)
    /\ worldBodies' = worldBodies \cup {BodyFor(newSize)}

\* this.updatePhysicsBody() of grow and damage, as updateBallSize(this.size)
\* writes it: the old body leaves the world, a new one is created and
\* added, and the velocity is carried over to it.
UpdateBallSize(newSize) ==
    /\ ballBody' = BodyFor(newSize)
    /\ worldBodies' = (worldBodies \ {ballBody}) \cup {BodyFor(newSize)}

grow(amount) ==
    /\ size + amount <= MaxSize
    /\ lastOp' = "grow"
    /\ size' = size + amount
    /\ mass' = mass + amount * massPerSize
    /\ UpdateBallSize(size')
    /\ piecesCalls' = 0
    /\ impactGiven' = FALSE
    /\ UNCHANGED <<beetleVars, gameBallVars, entityVars, upgradeCall, loopVars>>
    /\ UNCHANGED <<heightVars, ecoVars, lifecycleVars>>

\* damage(amount) declares one parameter: an impact point passed by the
\* caller, as documented for damage(amount, position), is not read.
DungBall_damage(amount, impactPoint) ==
    /\ IF size - amount < minSize
       THEN size' = minSize /\ mass' = minMass
       ELSE size' = size - amount /\ mass' = mass - amount * massPerSize
    /\ UpdateBallSize(size')
    /\ piecesCalls' = 1
    /\ impactGiven' = impactPoint

damage(amount, impactPoint) ==
    /\ lastOp' = "damage"
    /\ DungBall_damage(amount, impactPoint)
    /\ UNCHANGED <<beetleVars, gameBallVars, entityVars, upgradeCall, loopVars>>
    /\ UNCHANGED <<heightVars, ecoVars, lifecycleVars>>

(***************************************************************************)
(* Special terrain interactions                                            *)
(***************************************************************************)
TerrainTypes == {"water", "mud", "sand", "snow", "grass"}

\* The operation name a terrain interaction leaves in lastOp.
TerrainOp(terrainType, isSmallWater) ==
    CASE terrainType = "water" /\ isSmallWater -> "updateTerrainInteractions water small"
      [] terrainType = "water" /\ ~isSmallWater -> "updateTerrainInteractions water large"
      [] terrainType = "mud" -> "updateTerrainInteractions mud"
      [] terrainType = "sand" -> "updateTerrainInteractions sand"
      [] terrainType = "snow" -> "updateTerrainInteractions snow"
      [] OTHER -> "updateTerrainInteractions default"

DeepWater == TerrainOp("water", FALSE)

\* ball.damage(0.05) in small water
smallWaterDamage == 1

\* the large-water damage with the amount of small water
DeepWaterDamage_slight(ballSize) == smallWaterDamage

\* ball.damage(ball.size) in large water
DeepWaterDamage(ballSize) == ballSize

\* getLinearVelocity().op_mul(pct / 100), each component rounded toward
\* zero to the velocity grid.
ScaleVel(v, pct) ==
    [i \in 1 .. 3 |-> IF v[i] >= 0 THEN (v[i] * pct) \div 100
                                    ELSE -((-v[i] * pct) \div 100)]

updateTerrainInteractions(terrainType, isSmallWater) ==
    /\ lastOp' = TerrainOp(terrainType, isSmallWater)
    /\ CASE terrainType = "water" /\ isSmallWater ->
               /\ DungBall_damage(smallWaterDamage, FALSE)
               /\ ballVel' = ScaleVel(ballVel, 80)
        [] terrainType = "water" /\ ~isSmallWater ->
               /\ DungBall_damage(DeepWaterDamage(size), FALSE)
               /\ UNCHANGED ballVel
        [] terrainType = "mud" ->
               /\ ballVel' = ScaleVel(ballVel, 60)
               /\ UNCHANGED <<archVars, physBodyVars>>
        [] terrainType = "sand" ->
               /\ ballVel' = ScaleVel(ballVel, 85)
               /\ UNCHANGED <<archVars, physBodyVars>>
        [] terrainType = "snow" ->
               /\ ballVel' = ScaleVel(ballVel, 95)
               /\ UNCHANGED <<archVars, physBodyVars>>
        [] OTHER -> UNCHANGED <<ballVel, archVars, physBodyVars>>
    /\ UNCHANGED <<beetleVars, ballForce, entityVars, upgradeCall, loopVars>>
    /\ UNCHANGED <<heightVars, ecoVars, lifecycleVars>>

(***************************************************************************)
(* DungBeetle coupling: attach, detach, push                               *)
(***************************************************************************)
NoBall == "null"
DungBallOfGame == "dungBall"
Balls == {DungBallOfGame, "ball2"}

NoConstraint == [id |-> 0, ball |-> NoBall]

\* Constraints that can be registered at once in the model.
MaxConstraints == 3
ConstraintIds == 1 .. MaxConstraints

initialStats == [topSpeed |-> 5, acceleration |-> 2, deceleration |-> 3,
                 reverseSpeed |-> 2, strength |-> 1]

\* 1 / mass of the beetle body (mass = 0.5)
beetleInvMass == 2

\* Velocities (1/2 m/s) the physics step can leave the ball with, for
\* topSpeed 5: at rest; 3 m/s falling; exactly 5 m/s; 6 m/s; exactly
\* 7.5 m/s; 8 m/s; 3 m/s in the plane while rising at 8 m/s.
Vels == {<<0, 0, 0>>, <<0, -4, 6>>, <<6, 0, 8>>, <<0, 0, 12>>, <<9, 0, 12>>,
         <<0, 0, -16>>, <<0, 16, 6>>}
BeetleStepVels == {<<0, 0, 0>>, <<0, -2, 0>>}

\* Math.random() * 2 - 1 in [-1, 1) and Math.random() * 2 + 1 in [1, 3),
\* in 1/2 N s.
ThrowXZ == {-2, 1}
\* the vertical component drawn like the horizontal ones
ThrowY_symmetric == {-2, 1}
ThrowY == {2, 5}

\* Bounds on what accumulates without a physics step in between.
MaxBeetleVel == 12
MaxForce == 2

Directions == {<<0, -1>>, <<0, 1>>, <<1, 0>>}
Strengths == {1, 2}

\* velocity.x()^2 + velocity.z()^2 (the y component is not read)
PlanarSpeedSq(v) == v[1] * v[1] + v[3] * v[3]

\* currentSpeed < this.stats.topSpeed, speeds in 1/2 m/s
BelowTopSpeed(v, topSpeed) == PlanarSpeedSq(v) < (2 * topSpeed) * (2 * topSpeed)

\* the overspeed test with >= in place of >
IsOverspeed_atThreshold(v, topSpeed) ==
    PlanarSpeedSq(v) >= (3 * topSpeed) * (3 * topSpeed)

\* currentSpeed > this.stats.topSpeed * 1.5, speeds in 1/2 m/s
IsOverspeed(v, topSpeed) == PlanarSpeedSq(v) > (3 * topSpeed) * (3 * topSpeed)

InForceBound(f) == Abs(f[1]) <= MaxForce /\ Abs(f[2]) <= MaxForce
InBeetleBound(v) == \A i \in 1 .. 3 : Abs(v[i]) <= MaxBeetleVel

attachToBall(ball) ==
    /\ \E i \in ConstraintIds : \A c \in worldConstraints : c.id # i
    /\ lastOp' = "attachToBall"
    /\ attachedBall' = ball
    /\ LET free == {i \in ConstraintIds : \A c \in worldConstraints : c.id # i}
           new == [id |-> CHOOSE i \in free : \A j \in free : i <= j, ball |-> ball]
       IN  /\ constraint' = new
           /\ worldConstraints' = worldConstraints \cup {new}
    /\ UNCHANGED <<stats, beetleVel, gameBallVars, entityVars, archVars>>
    /\ UNCHANGED <<physBodyVars, upgradeCall, loopVars>>
    /\ UNCHANGED <<heightVars, ecoVars, lifecycleVars>>

\* attachToBall when the engine refuses the constraint: with an invalid body
\* reference, ball.body.getWorldTransform() or the btPoint2PointConstraint
\* constructor throws, after this.attachedBall = ball has been executed.
attachToBall_throws(ball) ==
    /\ lastOp' = "attachToBall throws"
    /\ attachedBall' = ball
    /\ UNCHANGED <<constraint, worldConstraints, stats, beetleVel>>
    /\ UNCHANGED <<gameBallVars, entityVars, archVars>>
    /\ UNCHANGED <<physBodyVars, upgradeCall, loopVars>>
    /\ UNCHANGED <<heightVars, ecoVars, lifecycleVars>>

\* The body of detachFromBall, with the three Math.random() results chosen.
Detach(tx, ty, tz) ==
    IF constraint # NoConstraint
    THEN /\ worldConstraints' = worldConstraints \ {constraint}
         /\ constraint' = NoConstraint
         /\ attachedBall' = NoBall
         /\ beetleVel' = <<beetleVel[1] + beetleInvMass * tx,
                           beetleVel[2] + beetleInvMass * ty,
                           beetleVel[3] + beetleInvMass * tz>>
         /\ InBeetleBound(beetleVel')
    ELSE UNCHANGED <<worldConstraints, constraint, attachedBall, beetleVel>>

detachFromBall ==
    /\ lastOp' = "detachFromBall"
    /\ \E tx \in ThrowXZ, ty \in ThrowY, tz \in ThrowXZ : Detach(tx, ty, tz)
    /\ UNCHANGED <<stats, gameBallVars, entityVars, archVars>>
    /\ UNCHANGED <<physBodyVars, upgradeCall, loopVars>>
    /\ UNCHANGED <<heightVars, ecoVars, lifecycleVars>>

\* pushBall reads this.attachedBall.body: it is called with a ball attached.
pushBall(direction, strength) ==
    /\ attachedBall # NoBall
    /\ lastOp' = "pushBall"
    /\ IF BelowTopSpeed(ballVel, stats.topSpeed)
       THEN ballForce' = <<ballForce[1] + direction[1] * strength,
                           ballForce[2] + direction[2] * strength>>
       ELSE UNCHANGED ballForce
    /\ IF IsOverspeed(ballVel, stats.topSpeed)
       THEN \E tx \in ThrowXZ, ty \in ThrowY, tz \in ThrowXZ : Detach(tx, ty, tz)
       ELSE UNCHANGED <<worldConstraints, constraint, attachedBall, beetleVel>>
    /\ UNCHANGED <<stats, ballVel, entityVars, archVars>>
    /\ UNCHANGED <<physBodyVars, upgradeCall, loopVars>>
    /\ UNCHANGED <<heightVars, ecoVars, lifecycleVars>>

\* The force on the ball after DungBeetle.push(direction):
\* attachedBall.applyForce(direction * stats.strength) when a ball is attached.
ForceAfterPush(force, direction) ==
    IF attachedBall # NoBall
    THEN <<force[1] + direction[1] * stats.strength,
           force[2] + direction[2] * stats.strength>>
    ELSE force

push(direction) ==
    /\ lastOp' = "push"
    /\ ballForce' = ForceAfterPush(ballForce, direction)
    /\ InForceBound(ballForce')
    /\ UNCHANGED <<beetleVars, ballVel, entityVars, archVars>>
    /\ UNCHANGED <<physBodyVars, upgradeCall, loopVars>>
    /\ UNCHANGED <<heightVars, ecoVars, lifecycleVars>>

\* Controls.update: forward pushes along -z, backward along +z.
Controls_update(keys) ==
    /\ lastOp' = "Controls.update"
    /\ LET f1 == IF keys.forward THEN ForceAfterPush(ballForce, <<0, -1>>)
                 ELSE ballForce
           f2 == IF keys.backward THEN ForceAfterPush(f1, <<0, 1>>) ELSE f1
       IN  /\ InForceBound(f1)
           /\ ballForce' = f2
    /\ InForceBound(ballForce')
    /\ UNCHANGED <<beetleVars, ballVel, entityVars, archVars>>
    /\ UNCHANGED <<physBodyVars, upgradeCall, loopVars>>
    /\ UNCHANGED <<heightVars, ecoVars, lifecycleVars>>

(***************************************************************************)
(* DungBeetle.upgrade                                                      *)
(***************************************************************************)
NoCall == [stat |-> "", amount |-> 0, result |-> FALSE]
NaN == "NaN"

\* Stat names and amounts the upgrade is called with; "wings" is not a stat.
UpgradeStats == {"strength", "wings"}
UpgradeAmounts == {1, 2}
\* Upgrades are unbounded in the code; the model stops at MaxStat.
MaxStat == 3

\* the test that accepts every name
HasOwnProperty_any(s, name) == TRUE

\* this.stats.hasOwnProperty(statToUpgrade)
HasOwnProperty(s, name) == name \in DOMAIN s

\* this.stats[statToUpgrade] += amount: a name the object does not have
\* reads as undefined, and undefined + amount is NaN.
StatsAfter(s, name, amount) ==
    [k \in DOMAIN s \cup {name} |->
        IF k # name THEN s[k]
        ELSE IF name \in DOMAIN s /\ s[name] \in Int THEN s[name] + amount
        ELSE NaN]

upgrade(statToUpgrade, amount) ==
    /\ (statToUpgrade \in DOMAIN stats /\ stats[statToUpgrade] \in Int)
          => stats[statToUpgrade] + amount <= MaxStat
    /\ lastOp' = "upgrade"
    /\ IF HasOwnProperty(stats, statToUpgrade)
       THEN /\ stats' = StatsAfter(stats, statToUpgrade, amount)
            /\ upgradeCall' = [stat |-> statToUpgrade, amount |-> amount,
                               result |-> TRUE]
       ELSE /\ upgradeCall' = [stat |-> statToUpgrade, amount |-> amount,
                               result |-> FALSE]
            /\ UNCHANGED stats
    /\ UNCHANGED <<attachedBall, constraint, worldConstraints, beetleVel>>
    /\ UNCHANGED <<gameBallVars, entityVars, archVars, physBodyVars, loopVars>>
    /\ UNCHANGED <<heightVars, ecoVars, lifecycleVars>>

\* physicsWorld.stepSimulation: the engine integrates forces, gravity,
\* contacts and constraints, and clears the applied forces.
stepSimulation ==
    /\ ballVel' \in Vels
    /\ beetleVel' \in BeetleStepVels
    /\ ballForce' = <<0, 0>>

\* Values of stats.distanceNorth followed, in m: the start, and the values
\* next to the edges of the distance bands.
Distances == {0, 999, 1000, 1001, 1999, 2000, 2001, 2999, 3000, 3001, 3500}

\* updateStats, whose body the source does not give: within one tick the
\* distance to the north stays or advances to the next value followed.
NextDistances(d) ==
    {d} \cup {n \in Distances : n > d /\ \A m \in Distances : m > d => n <= m}

\* Game.currentEcosystem after checkEcosystemTransitions.
checkEcosystemTransitions(northDistance, ecosystem) ==
    IF northDistance > 1000 /\ ecosystem = "grassland" THEN "forest"
    ELSE IF northDistance > 2000 /\ ecosystem = "forest" THEN "desert"
    ELSE ecosystem

\* Game.gameLoop: updatePhysics, then beetle.update and dungBall.update,
\* which copy the body transforms to the meshes, updateStats and
\* checkEcosystemTransitions.
gameLoop ==
    /\ lastOp' = "gameLoop"
    /\ stepSimulation
    /\ distanceNorth' \in NextDistances(distanceNorth)
    /\ currentEcosystem' = checkEcosystemTransitions(distanceNorth', currentEcosystem)
    /\ UNCHANGED <<attachedBall, constraint, worldConstraints, stats>>
    /\ UNCHANGED <<entityVars, archVars, physBodyVars, upgradeCall, loopVars>>
    /\ UNCHANGED <<heightVars, lifecycleVars>>

(***************************************************************************)
(* A physics step in which the pushes are the only force on the ball       *)
(***************************************************************************)
\* The largest step the frame loop is meant to hand to the solver, in ms.
DtMax == 100

\* Strengths pushBall is called with and the force that may accumulate
\* between two steps, in N.
PushStrengths == {5, 20}
MaxPushForce == 40
InPushBound(f) == Abs(f[1]) <= MaxPushForce /\ Abs(f[2]) <= MaxPushForce

\* The force in N that adds 1/2 m/s to a ball of the initial mass in one
\* step of DtMax: dv = F * dt / m.
ForcePerHalfSpeed == (1000 * initialMass) \div (80 * DtMax)

VelAfterForce(v, f) ==
    <<v[1] + f[1] \div ForcePerHalfSpeed, v[2], v[3] + f[2] \div ForcePerHalfSpeed>>

\* physicsUpdate with a step of DtMax on level ground without friction,
\* gravity or contacts acting in the plane: the ball gains F * dt / m.
physicsUpdate_pushOnly ==
    /\ lastOp' = "physicsUpdate"
    /\ ballVel' = VelAfterForce(ballVel, ballForce)
    /\ ballForce' = <<0, 0>>
    /\ beetleVel' \in BeetleStepVels
    /\ UNCHANGED <<attachedBall, constraint, worldConstraints, stats>>
    /\ UNCHANGED <<entityVars, archVars, physBodyVars, upgradeCall, loopVars>>
    /\ UNCHANGED <<heightVars, ecoVars, lifecycleVars>>

(***************************************************************************)
(* Game.animate, Controls and the Beetle with direct position updates      *)
(***************************************************************************)
\* Beetle.stats.speed, m/s
speed == 5

\* The clock performance.now() is followed up to MaxTime ms.
MaxTime == 600
\* performance.now() when init reaches its first frame, and the time
\* between two frames: the timer did not advance, a 60 Hz frame, a frame
\* after the page was in the background.
StartTimes == {40, 350}
FrameGaps == {0, 16, 250}

NoKeys == [forward |-> FALSE, backward |-> FALSE, left |-> FALSE, right |-> FALSE]
\* Key codes of the events delivered; "KeyQ" is not bound.
KeyCodes == {"KeyW", "ArrowDown", "KeyQ"}

KeysAfter(k, code, down) ==
    CASE code \in {"KeyW", "ArrowUp"} -> [k EXCEPT !.forward = down]
      [] code \in {"KeyS", "ArrowDown"} -> [k EXCEPT !.backward = down]
      [] code \in {"KeyA", "ArrowLeft"} -> [k EXCEPT !.left = down]
      [] code \in {"KeyD", "ArrowRight"} -> [k EXCEPT !.right = down]
      [] OTHER -> k

\* Controls.update followed by Beetle.setMovement: the z component of
\* normalize(direction) * speed.  Left and right are never pressed here,
\* so direction is along z and normalize leaves it as it is.
VelocityFor(k) ==
    LET z == (IF k.backward THEN 1 ELSE 0) - (IF k.forward THEN 1 ELSE 0)
        s == IF k.forward \/ k.backward \/ k.left \/ k.right THEN speed ELSE 0
    IN  z * s

\* Beetle.stats.height, in mm
height == 100

\* position.y after Beetle.update if the step were integrated like x and z
HeightAfterUpdate_free(y, vy, deltaTime) == y + vy * deltaTime

\* position.y after Beetle.update: position.add(velocity * deltaTime), then
\* this.position.y = this.stats.height
HeightAfterUpdate(y, vy, deltaTime) == height

\* The body of animate once the game is initialized, at clock currentTime:
\* physicsWorld.update(deltaTime), beetle.update(deltaTime),
\* beetleControls.update(), whose direction has no y component.
Frame(currentTime) ==
    LET deltaTime == currentTime - lastTime
    IN  /\ lastTime' = currentTime
        /\ solverDts' = <<deltaTime>>
        /\ position' = position + velocity * deltaTime
        /\ positionY' = HeightAfterUpdate(positionY, velocityY, deltaTime)
        /\ velocity' = VelocityFor(controlsKeys)
        /\ velocityY' = 0

\* Game.init: physicsWorld.init(), ground, beetle, new Controls(beetle),
\* isInitialized = true, then the first animate().
Game_init(currentTime) ==
    /\ ~isInitialized
    /\ lastOp' = "init"
    /\ isInitialized' = TRUE
    /\ Frame(currentTime)
    /\ UNCHANGED controlsKeys
    /\ UNCHANGED <<beetleVars, gameBallVars, entityVars, archVars>>
    /\ UNCHANGED <<physBodyVars, upgradeCall>>
    /\ UNCHANGED <<ecoVars, lifecycleVars>>

onKeyDown(code) ==
    /\ isInitialized
    /\ lastOp' = "onKeyDown"
    /\ controlsKeys' = KeysAfter(controlsKeys, code, TRUE)
    /\ UNCHANGED <<isInitialized, lastTime, velocity, position, solverDts>>
    /\ UNCHANGED <<beetleVars, gameBallVars, entityVars, archVars>>
    /\ UNCHANGED <<physBodyVars, upgradeCall>>
    /\ UNCHANGED <<heightVars, ecoVars, lifecycleVars>>

onKeyUp(code) ==
    /\ isInitialized
    /\ lastOp' = "onKeyUp"
    /\ controlsKeys' = KeysAfter(controlsKeys, code, FALSE)
    /\ UNCHANGED <<isInitialized, lastTime, velocity, position, solverDts>>
    /\ UNCHANGED <<beetleVars, gameBallVars, entityVars, archVars>>
    /\ UNCHANGED <<physBodyVars, upgradeCall>>
    /\ UNCHANGED <<heightVars, ecoVars, lifecycleVars>>

animate(gap) ==
    /\ lastOp' = "animate"
    /\ IF isInitialized
       THEN /\ lastTime + gap <= MaxTime
            /\ Frame(lastTime + gap)
       ELSE /\ solverDts' = <<>>
            /\ UNCHANGED <<lastTime, velocity, position, heightVars>>
    /\ UNCHANGED <<isInitialized, controlsKeys>>
    /\ UNCHANGED <<beetleVars, gameBallVars, entityVars, archVars>>
    /\ UNCHANGED <<physBodyVars, upgradeCall>>
    /\ UNCHANGED <<ecoVars, lifecycleVars>>

(***************************************************************************)
(* PhysicsWorld, the rigid bodies it tracks, and Ground                    *)
(***************************************************************************)
\* btRigidBody objects the heap can hand out in the model.
MaxBodies == 3
Bodies == 1 .. MaxBodies
\* Three.js objects given to addRigidBody.
Meshes == {1}
\* Ammo.destroy calls followed per body.
MaxDestroys == 2

\* The arguments of addRigidBody and removeRigidBody, and the entries of
\* rigidBodies: an Ammo body, a Three.js object, or the temporary Object3D
\* that addRigidBody makes to track an Ammo body (id: that body).
BodyHandle(b) == [type |-> "btRigidBody", id |-> b]
MeshHandle(m) == [type |-> "Object3D", id |-> m]
TempObject(b) == [type |-> "tempObject", id |-> b]

\* The object after the constructor.  Ammo, world: FALSE for null.  bodies
\* are the rigid bodies in the btDiscreteDynamicsWorld; destroyCalls counts
\* the Ammo.destroy calls made on each body, and destroyedLive holds the
\* bodies destroyed while in the world or tracked in rigidBodies.
NewPhysicsWorld ==
    [Ammo |-> FALSE, world |-> FALSE, rigidBodies |-> <<>>,
     initialized |-> FALSE, isInitializing |-> FALSE, bodies |-> {},
     destroyCalls |-> [b \in Bodies |-> 0], destroyedLive |-> {}]

NoBodyCall == [op |-> "none", object |-> [type |-> "none", id |-> 0]]

\* What the build can do when freed memory is used: world.removeRigidBody
\* or Ammo.destroy on a body that was destroyed before either goes through
\* or throws.
Outcomes == {"continues", "removeRigidBody throws", "destroy throws"}

\* this.rigidBodies.indexOf(object), counted from 1; 0 for -1.
IndexOf(seq, object) ==
    IF \E i \in DOMAIN seq : seq[i] = object
    THEN CHOOSE i \in DOMAIN seq :
             seq[i] = object /\ \A j \in DOMAIN seq : seq[j] = object => i <= j
    ELSE 0

\* seq.splice(index, 1)
Splice(seq, index) ==
    [i \in 1 .. Len(seq) - 1 |-> IF i < index THEN seq[i] ELSE seq[i + 1]]

\* object.userData.physicsBody of an entry of rigidBodies, 0 if unset.
PhysicsBodyOf(object, ud) ==
    IF object.type = "tempObject" THEN object.id
    ELSE IF object.type = "Object3D" THEN ud[object.id]
    ELSE 0

Tracked(pw, b, ud) ==
    \E i \in DOMAIN pw.rigidBodies : PhysicsBodyOf(pw.rigidBodies[i], ud) = b

\* Ammo.destroy(b)
Destroy(pw, b, ud) ==
    [pw EXCEPT !.destroyCalls[b] = @ + 1,
               !.destroyedLive = IF b \in pw.bodies \/ Tracked(pw, b, ud)
                                 THEN @ \cup {b} ELSE @]

\* PhysicsWorld.addRigidBody(object); fresh is the body made for a
\* Three.js object.
AddRigidBody(pw, object, fresh) ==
    IF ~pw.initialized THEN pw
    ELSE IF object.type = "btRigidBody"
    THEN [pw EXCEPT !.bodies = @ \cup {object.id},
                    !.rigidBodies = Append(@, TempObject(object.id))]
    ELSE [pw EXCEPT !.bodies = @ \cup {fresh},
                    !.rigidBodies = Append(@, object)]

\* PhysicsWorld.removeRigidBody(object).  The body is taken out of the
\* world, destroyed, and its entry spliced out; an exception is caught and
\* leaves what was done before it.
RemoveRigidBody(pw, object, ud, outcome) ==
    LET index == IndexOf(pw.rigidBodies, object)
        entry == pw.rigidBodies[index]
        b == PhysicsBodyOf(entry, ud)
        freed == pw.destroyCalls[b] > 0
        removed == [pw EXCEPT !.bodies = @ \ {b}]
        spliced == [removed EXCEPT !.rigidBodies = Splice(@, index)]
    IN  IF ~pw.initialized \/ index = 0 THEN pw
        ELSE IF b = 0 THEN [pw EXCEPT !.rigidBodies = Splice(@, index)]
        ELSE IF freed /\ outcome = "removeRigidBody throws" THEN pw
        ELSE IF freed /\ outcome = "destroy throws"
        THEN Destroy(removed, b, ud)
        ELSE Destroy(spliced, b, ud)

\* The loop of PhysicsWorld.dispose, from the last entry down to the first.
RECURSIVE RemoveAll(_, _, _, _)
RemoveAll(pw, i, ud, outcome) ==
    IF i = 0 THEN pw
    ELSE RemoveAll(RemoveRigidBody(pw, pw.rigidBodies[i], ud, outcome),
                   i - 1, ud, outcome)

\* PhysicsWorld.dispose
Dispose(pw, ud, outcome) ==
    IF ~pw.initialized THEN pw
    ELSE [RemoveAll(pw, Len(pw.rigidBodies), ud, outcome)
             EXCEPT !.world = FALSE, !.bodies = {}, !.initialized = FALSE]

\* Ground.dispose, physics part: removeRigidBody(this.physicsBody), then
\* Ammo.destroy(this.physicsBody).  physicsBody is not reset.
GroundDispose(pw, gb, ud, outcome) ==
    IF gb = 0 THEN pw
    ELSE Destroy(RemoveRigidBody(pw, BodyHandle(gb), ud, outcome), gb, ud)

\* TRUE iff the Ammo.destroy of Ground.dispose throws: the body was freed
\* before and the build does not let the second free through.
GroundDisposeThrows(pw, gb, outcome) ==
    gb # 0 /\ pw.destroyCalls[gb] > 0 /\ outcome = "destroy throws"

InDestroyBound(pw) == \A b \in Bodies : pw.destroyCalls[b] <= MaxDestroys

\* await physicsWorld.init(), up to its await or its return.
PhysicsWorld_init ==
    /\ IF physicsWorld.isInitializing
       THEN /\ lastOp' = "PhysicsWorld.init resolves"
            /\ UNCHANGED <<physicsWorld, ammoPending>>
       ELSE IF physicsWorld.initialized
       THEN /\ lastOp' = "PhysicsWorld.init resolves"
            /\ UNCHANGED <<physicsWorld, ammoPending>>
       ELSE /\ lastOp' = "PhysicsWorld.init awaits"
            /\ physicsWorld' = [physicsWorld EXCEPT !.isInitializing = TRUE]
            /\ ammoPending' = TRUE
    /\ UNCHANGED <<userData, groundBody, nextBody, bodyCall>>
    /\ UNCHANGED <<waitVars, gameVars, listenerVars>>
    /\ UNCHANGED <<beetleVars, gameBallVars, entityVars, archVars, physBodyVars>>
    /\ UNCHANGED <<upgradeCall, loopVars, heightVars, ecoVars>>

\* this.Ammo = await Ammo.default(), initializePhysics, finally.
Initialized(pw) ==
    [pw EXCEPT !.Ammo = TRUE, !.world = TRUE, !.bodies = {},
               !.initialized = TRUE, !.isInitializing = FALSE]

\* Ammo.default() resolves: init goes on to its end and its promise
\* resolves.
Ammo_resolves ==
    /\ ammoPending /\ ~initAwaiting
    /\ lastOp' = "PhysicsWorld.init resolves"
    /\ physicsWorld' = Initialized(physicsWorld)
    /\ ammoPending' = FALSE
    /\ UNCHANGED <<userData, groundBody, nextBody, bodyCall>>
    /\ UNCHANGED <<waitVars, gameVars, listenerVars>>
    /\ UNCHANGED <<beetleVars, gameBallVars, entityVars, archVars, physBodyVars>>
    /\ UNCHANGED <<upgradeCall, loopVars, heightVars, ecoVars>>

\* Ammo.default() rejects: catch rethrows, finally resets isInitializing.
Ammo_rejects ==
    /\ ammoPending /\ ~initAwaiting
    /\ lastOp' = "PhysicsWorld.init rejects"
    /\ physicsWorld' = [physicsWorld EXCEPT !.isInitializing = FALSE]
    /\ ammoPending' = FALSE
    /\ UNCHANGED <<userData, groundBody, nextBody, bodyCall>>
    /\ UNCHANGED <<waitVars, gameVars, listenerVars>>
    /\ UNCHANGED <<beetleVars, gameBallVars, entityVars, archVars, physBodyVars>>
    /\ UNCHANGED <<upgradeCall, loopVars, heightVars, ecoVars>>

\* physicsWorld.addRigidBody(object) with a Three.js object.
addRigidBody(object) ==
    /\ nextBody <= MaxBodies
    /\ lastOp' = "addRigidBody"
    /\ bodyCall' = [op |-> "addRigidBody", object |-> object]
    /\ physicsWorld' = AddRigidBody(physicsWorld, object, nextBody)
    /\ IF physicsWorld.initialized
       THEN /\ userData' = [userData EXCEPT ![object.id] = nextBody]
            /\ nextBody' = nextBody + 1
       ELSE UNCHANGED <<userData, nextBody>>
    /\ UNCHANGED <<ammoPending, groundBody>>
    /\ UNCHANGED <<waitVars, gameVars, listenerVars>>
    /\ UNCHANGED <<beetleVars, gameBallVars, entityVars, archVars, physBodyVars>>
    /\ UNCHANGED <<upgradeCall, loopVars, heightVars, ecoVars>>

removeRigidBody(object) ==
    /\ lastOp' = "removeRigidBody"
    /\ bodyCall' = [op |-> "removeRigidBody", object |-> object]
    /\ \E outcome \in Outcomes :
          physicsWorld' = RemoveRigidBody(physicsWorld, object, userData, outcome)
    /\ InDestroyBound(physicsWorld')
    /\ UNCHANGED <<ammoPending, userData, groundBody, nextBody>>
    /\ UNCHANGED <<waitVars, gameVars, listenerVars>>
    /\ UNCHANGED <<beetleVars, gameBallVars, entityVars, archVars, physBodyVars>>
    /\ UNCHANGED <<upgradeCall, loopVars, heightVars, ecoVars>>

PhysicsWorld_dispose ==
    /\ lastOp' = "PhysicsWorld.dispose"
    /\ \E outcome \in Outcomes :
          physicsWorld' = Dispose(physicsWorld, userData, outcome)
    /\ InDestroyBound(physicsWorld')
    /\ UNCHANGED <<ammoPending, userData, groundBody, nextBody, bodyCall>>
    /\ UNCHANGED <<waitVars, gameVars, listenerVars>>
    /\ UNCHANGED <<beetleVars, gameBallVars, entityVars, archVars, physBodyVars>>
    /\ UNCHANGED <<upgradeCall, loopVars, heightVars, ecoVars>>

\* new Ground(scene, physicsWorld) and its init: createPhysicsBody makes a
\* body and hands it to addRigidBody, unless Ammo is not loaded.
Ground_init ==
    /\ nextBody <= MaxBodies
    /\ lastOp' = "Ground.init"
    /\ IF physicsWorld.Ammo
       THEN /\ groundBody' = nextBody
            /\ nextBody' = nextBody + 1
            /\ bodyCall' = [op |-> "addRigidBody", object |-> BodyHandle(nextBody)]
            /\ physicsWorld' = AddRigidBody(physicsWorld, BodyHandle(nextBody), 0)
       ELSE /\ groundBody' = 0
            /\ UNCHANGED <<nextBody, bodyCall, physicsWorld>>
    /\ UNCHANGED <<ammoPending, userData>>
    /\ UNCHANGED <<waitVars, gameVars, listenerVars>>
    /\ UNCHANGED <<beetleVars, gameBallVars, entityVars, archVars, physBodyVars>>
    /\ UNCHANGED <<upgradeCall, loopVars, heightVars, ecoVars>>

Ground_dispose ==
    /\ lastOp' = "Ground.dispose"
    /\ \E outcome \in Outcomes :
          physicsWorld' = GroundDispose(physicsWorld, groundBody, userData, outcome)
    /\ InDestroyBound(physicsWorld')
    /\ bodyCall' = IF groundBody # 0
                   THEN [op |-> "removeRigidBody", object |-> BodyHandle(groundBody)]
                   ELSE bodyCall
    /\ UNCHANGED <<ammoPending, userData, groundBody, nextBody>>
    /\ UNCHANGED <<waitVars, gameVars, listenerVars>>
    /\ UNCHANGED <<beetleVars, gameBallVars, entityVars, archVars, physBodyVars>>
    /\ UNCHANGED <<upgradeCall, loopVars, heightVars, ecoVars>>

(***************************************************************************)
(* Game (src/src/core/Game.js): the wait for the physics world in init     *)
(***************************************************************************)
maxAttempts == 50

\* a timeout test that lets one more poll through
TimedOut_late(a) == a > maxAttempts

\* attempts >= maxAttempts
TimedOut(a) == a >= maxAttempts

\* One call of checkPhysics: the state of the wait's promise and attempts.
CheckPhysics(pw, a) ==
    IF pw.initialized THEN [state |-> "resolved", attempts |-> a]
    ELSE IF TimedOut(a) THEN [state |-> "rejected", attempts |-> a]
    ELSE [state |-> "pending", attempts |-> a + 1]

\* Game.init reaches the wait: this.physicsWorld = new PhysicsWorld(), then
\* the promise's executor sets attempts = 0 and calls checkPhysics() once.
Game_init_wait ==
    /\ waitState = "none"
    /\ lastOp' = "Game.init waits"
    /\ physicsWorld' = NewPhysicsWorld
    /\ attempts' = CheckPhysics(NewPhysicsWorld, 0).attempts
    /\ waitState' = CheckPhysics(NewPhysicsWorld, 0).state
    /\ UNCHANGED <<ammoPending, userData, groundBody, nextBody, bodyCall>>
    /\ UNCHANGED <<gameVars, listenerVars>>
    /\ UNCHANGED <<beetleVars, gameBallVars, entityVars, archVars, physBodyVars>>
    /\ UNCHANGED <<upgradeCall, loopVars, heightVars, ecoVars>>

\* The timer set by setTimeout(checkPhysics, 100) fires.
checkPhysics ==
    /\ waitState = "pending"
    /\ lastOp' = "checkPhysics"
    /\ attempts' = CheckPhysics(physicsWorld, attempts).attempts
    /\ waitState' = CheckPhysics(physicsWorld, attempts).state
    /\ UNCHANGED <<physVars, gameVars, listenerVars>>
    /\ UNCHANGED <<beetleVars, gameBallVars, entityVars, archVars, physBodyVars>>
    /\ UNCHANGED <<upgradeCall, loopVars, heightVars, ecoVars>>

(***************************************************************************)
(* Controls: the keyboard listeners on window                              *)
(***************************************************************************)
\* Function objects that bind() can make in the model.
MaxFns == 6

\* The two listeners Controls.init installs for the Controls object k:
\* this.onKeyDown.bind(this) and this.onKeyUp.bind(this), two new functions.
ListenersOf(k, fn) ==
    {[type |-> "keydown", fn |-> fn, controls |-> k],
     [type |-> "keyup", fn |-> fn + 1, controls |-> k]}

\* window.removeEventListener(type, fn): the listener of that type that is
\* this very function object is taken out.
RemoveEventListener(listeners, type, fn) ==
    {l \in listeners : ~(l.type = type /\ l.fn = fn)}

\* new Controls(beetle): the constructor calls init.
ControlsMade(objs) == Append(objs, [keys |-> NoKeys, disposed |-> FALSE])

\* Controls.dispose of the object k: both removeEventListener calls are
\* given the result of a new bind(), the functions numbered fn and fn + 1.
\* disposed records that dispose was called.
ListenersAfterDispose(listeners, fn) ==
    RemoveEventListener(RemoveEventListener(listeners, "keydown", fn),
                        "keyup", fn + 1)

ControlsDisposed(objs, k) == [objs EXCEPT ![k].disposed = TRUE]

\* The Controls objects after window dispatched a key event of this type
\* to the listeners installed for it.
Dispatched(objs, listeners, type, code) ==
    [k \in DOMAIN objs |->
        IF \E l \in listeners : l.type = type /\ l.controls = k
        THEN [objs[k] EXCEPT !.keys = KeysAfter(@, code, type = "keydown")]
        ELSE objs[k]]

Controls_constructor ==
    /\ nextFn + 1 <= MaxFns
    /\ lastOp' = "new Controls"
    /\ controlsObjs' = ControlsMade(controlsObjs)
    /\ windowListeners' = windowListeners \cup ListenersOf(Len(controlsObjs) + 1, nextFn)
    /\ nextFn' = nextFn + 2
    /\ UNCHANGED <<waitVars, physVars, gameVars>>
    /\ UNCHANGED <<beetleVars, gameBallVars, entityVars, archVars, physBodyVars>>
    /\ UNCHANGED <<upgradeCall, loopVars, heightVars, ecoVars>>

Controls_dispose(k) ==
    /\ k \in DOMAIN controlsObjs
    /\ lastOp' = "Controls.dispose"
    /\ windowListeners' = ListenersAfterDispose(windowListeners, nextFn)
    /\ controlsObjs' = ControlsDisposed(controlsObjs, k)
    /\ UNCHANGED nextFn
    /\ UNCHANGED <<waitVars, physVars, gameVars>>
    /\ UNCHANGED <<beetleVars, gameBallVars, entityVars, archVars, physBodyVars>>
    /\ UNCHANGED <<upgradeCall, loopVars, heightVars, ecoVars>>

\* A keydown or keyup event on window.
keyEvent(type, code) ==
    /\ lastOp' = type
    /\ controlsObjs' = Dispatched(controlsObjs, windowListeners, type, code)
    /\ UNCHANGED <<windowListeners, nextFn>>
    /\ UNCHANGED <<waitVars, physVars, gameVars>>
    /\ UNCHANGED <<beetleVars, gameBallVars, entityVars, archVars, physBodyVars>>
    /\ UNCHANGED <<upgradeCall, loopVars, heightVars, ecoVars>>

(***************************************************************************)
(* Game: init, dispose, the animation frames, waitForInit                  *)
(***************************************************************************)
\* requestAnimationFrame callbacks that may be pending at once in the model.
MaxFrames == 2

\* The physics world after the ground and the world were disposed by
\* Game.dispose.  If the Ammo.destroy of Ground.dispose throws, dispose
\* ends there and physicsWorld.dispose() is not reached.
WorldAfterGameDispose(pw, gb, ud, outcome) ==
    IF GroundDisposeThrows(pw, gb, outcome)
    THEN GroundDispose(pw, gb, ud, outcome)
    ELSE Dispose(GroundDispose(pw, gb, ud, outcome), ud, outcome)

\* Game.dispose up to physicsWorld.dispose(): isInitialized = false,
\* beetleControls.dispose(), beetle.dispose(), ground.dispose(),
\* physicsWorld.dispose().  beetleControls is the last Controls made.
GameDispose(outcome) ==
    /\ isInitialized' = FALSE
    /\ IF controlsObjs # <<>>
       THEN /\ windowListeners' = ListenersAfterDispose(windowListeners, nextFn)
            /\ controlsObjs' = ControlsDisposed(controlsObjs, Len(controlsObjs))
       ELSE UNCHANGED <<windowListeners, controlsObjs>>
    /\ UNCHANGED <<nextFn, userData, groundBody, nextBody, bodyCall>>
    /\ UNCHANGED <<lastTime, controlsKeys, velocity, position, solverDts>>

Game_dispose ==
    /\ \E outcome \in Outcomes :
          /\ GameDispose(outcome)
          /\ physicsWorld' =
                WorldAfterGameDispose(physicsWorld, groundBody, userData, outcome)
          /\ lastOp' = IF GroundDisposeThrows(physicsWorld, groundBody, outcome)
                       THEN "Game.dispose rejects" ELSE "Game.dispose"
    /\ InDestroyBound(physicsWorld')
    /\ UNCHANGED <<ammoPending, isInitializing, initAwaiting, pendingFrames, waiter>>
    /\ UNCHANGED waitVars
    /\ UNCHANGED <<beetleVars, gameBallVars, entityVars, archVars, physBodyVars>>
    /\ UNCHANGED <<upgradeCall, heightVars, ecoVars>>

\* Game.init up to await this.physicsWorld.init(): the isInitializing
\* guard, await this.dispose(), and physicsWorld.init() up to its own await.
\* Only Game.init calls physicsWorld.init(), so the world is not
\* initializing when it is reached.
Game_init_start ==
    /\ IF isInitializing
       THEN /\ lastOp' = "Game.init returns"
            /\ UNCHANGED <<physicsWorld, ammoPending, isInitializing, initAwaiting>>
            /\ UNCHANGED <<isInitialized, windowListeners, controlsObjs>>
            /\ UNCHANGED <<nextFn, userData, groundBody, nextBody, bodyCall>>
            /\ UNCHANGED <<lastTime, controlsKeys, velocity, position, solverDts>>
       ELSE \E outcome \in Outcomes :
            /\ GameDispose(outcome)
            /\ IF GroundDisposeThrows(physicsWorld, groundBody, outcome)
               THEN /\ lastOp' = "Game.init rejects"
                    /\ physicsWorld' = WorldAfterGameDispose(physicsWorld,
                                          groundBody, userData, outcome)
                    /\ UNCHANGED <<ammoPending, isInitializing, initAwaiting>>
               ELSE /\ lastOp' = "Game.init awaits"
                    /\ physicsWorld' =
                          [WorldAfterGameDispose(physicsWorld, groundBody,
                                                 userData, outcome)
                              EXCEPT !.isInitializing = TRUE]
                    /\ ammoPending' = TRUE
                    /\ isInitializing' = TRUE
                    /\ initAwaiting' = TRUE
    /\ InDestroyBound(physicsWorld')
    /\ UNCHANGED <<pendingFrames, waiter>>
    /\ UNCHANGED waitVars
    /\ UNCHANGED <<beetleVars, gameBallVars, entityVars, archVars, physBodyVars>>
    /\ UNCHANGED <<upgradeCall, heightVars, ecoVars>>

\* Ammo.default() resolves and Game.init runs to its end: the world is
\* initialized, Ground and Beetle are made, new Controls(beetle),
\* isInitialized = true, and animate() requests its first frame.
Game_init_resume ==
    /\ initAwaiting /\ ammoPending
    /\ nextBody <= MaxBodies /\ nextFn + 1 <= MaxFns /\ pendingFrames < MaxFrames
    /\ lastOp' = "Game.init resolves"
    /\ groundBody' = nextBody
    /\ nextBody' = nextBody + 1
    /\ bodyCall' = [op |-> "addRigidBody", object |-> BodyHandle(nextBody)]
    /\ physicsWorld' = AddRigidBody(Initialized(physicsWorld), BodyHandle(nextBody), 0)
    /\ ammoPending' = FALSE
    /\ controlsObjs' = ControlsMade(controlsObjs)
    /\ windowListeners' = windowListeners \cup ListenersOf(Len(controlsObjs) + 1, nextFn)
    /\ nextFn' = nextFn + 2
    /\ isInitialized' = TRUE
    /\ pendingFrames' = pendingFrames + 1
    /\ isInitializing' = FALSE
    /\ initAwaiting' = FALSE
    /\ UNCHANGED <<userData, waiter>>
    /\ UNCHANGED <<lastTime, controlsKeys, velocity, position, solverDts>>
    /\ UNCHANGED waitVars
    /\ UNCHANGED <<beetleVars, gameBallVars, entityVars, archVars, physBodyVars>>
    /\ UNCHANGED <<upgradeCall, heightVars, ecoVars>>

\* Ammo.default() rejects: physicsWorld.init() rethrows, Game.init rethrows,
\* and both finally blocks reset isInitializing.
Game_init_rejects ==
    /\ initAwaiting /\ ammoPending
    /\ lastOp' = "Game.init rejects"
    /\ physicsWorld' = [physicsWorld EXCEPT !.isInitializing = FALSE]
    /\ ammoPending' = FALSE
    /\ isInitializing' = FALSE
    /\ initAwaiting' = FALSE
    /\ UNCHANGED <<userData, groundBody, nextBody, bodyCall>>
    /\ UNCHANGED <<pendingFrames, waiter>>
    /\ UNCHANGED <<waitVars, listenerVars>>
    /\ UNCHANGED <<beetleVars, gameBallVars, entityVars, archVars, physBodyVars>>
    /\ UNCHANGED <<upgradeCall, loopVars, heightVars, ecoVars>>

\* A pending requestAnimationFrame callback runs animate: it returns at
\* once if the game is not initialized, else it requests the next frame
\* and does the frame's work (see Frame).
animate_callback ==
    /\ pendingFrames > 0
    /\ IF isInitialized
       THEN /\ lastOp' = "animate frame"
            /\ UNCHANGED pendingFrames
       ELSE /\ lastOp' = "animate returns"
            /\ pendingFrames' = pendingFrames - 1
    /\ UNCHANGED <<isInitializing, initAwaiting, waiter>>
    /\ UNCHANGED <<waitVars, physVars, listenerVars>>
    /\ UNCHANGED <<beetleVars, gameBallVars, entityVars, archVars, physBodyVars>>
    /\ UNCHANGED <<upgradeCall, loopVars, heightVars, ecoVars>>

\* Game.waitForInit: the promise it makes polls isInitialized; checkInit is
\* called once at once.
waitForInit ==
    /\ lastOp' = "waitForInit"
    /\ waiter' = IF ~isInitialized /\ waiter = "none" THEN "pending" ELSE waiter
    /\ UNCHANGED <<isInitializing, initAwaiting, pendingFrames>>
    /\ UNCHANGED <<waitVars, physVars, listenerVars>>
    /\ UNCHANGED <<beetleVars, gameBallVars, entityVars, archVars, physBodyVars>>
    /\ UNCHANGED <<upgradeCall, loopVars, heightVars, ecoVars>>

\* The timer of checkInit fires: resolve, or setTimeout(checkInit, 100).
checkInit ==
    /\ waiter = "pending"
    /\ lastOp' = "checkInit"
    /\ waiter' = IF isInitialized THEN "resolved" ELSE "pending"
    /\ UNCHANGED <<isInitializing, initAwaiting, pendingFrames>>
    /\ UNCHANGED <<waitVars, physVars, listenerVars>>
    /\ UNCHANGED <<beetleVars, gameBallVars, entityVars, archVars, physBodyVars>>
    /\ UNCHANGED <<upgradeCall, loopVars, heightVars, ecoVars>>

(***************************************************************************)
(* The Beetle with direct position updates, called on its own             *)
(***************************************************************************)
\* The beetle is followed while |position.z| <= MaxPosition mm.
MaxPosition == 2500

Sign(a) == IF a > 0 THEN 1 ELSE IF a < 0 THEN -1 ELSE 0

\* Vector3.normalize() of a vector along one axis (or of the zero vector,
\* which it leaves as it is): <<y, z>> components.
Normalize(direction) == <<Sign(direction[1]), Sign(direction[2])>>

\* Directions <<y, z>> and speeds setMovement is called with.
MoveDirections == {<<0, 0>>, <<0, -1>>, <<0, 2>>, <<1, 0>>, <<-3, 0>>}
MoveSpeeds == {0, speed}
\* deltaTime values update is called with, in ms.
DeltaTimes == {0, 16, 250}

setMovement(direction, speedArg) ==
    /\ lastOp' = "setMovement"
    /\ velocityY' = Normalize(direction)[1] * speedArg
    /\ velocity' = Normalize(direction)[2] * speedArg
    /\ UNCHANGED <<isInitialized, lastTime, controlsKeys, position, solverDts>>
    /\ UNCHANGED positionY
    /\ UNCHANGED <<beetleVars, gameBallVars, entityVars, archVars>>
    /\ UNCHANGED <<physBodyVars, upgradeCall, ecoVars, lifecycleVars>>

Beetle_update(deltaTime) ==
    /\ lastOp' = "Beetle.update"
    /\ position' = position + velocity * deltaTime
    /\ Abs(position') <= MaxPosition
    /\ positionY' = HeightAfterUpdate(positionY, velocityY, deltaTime)
    /\ UNCHANGED <<isInitialized, lastTime, controlsKeys, velocity, solverDts>>
    /\ UNCHANGED velocityY
    /\ UNCHANGED <<beetleVars, gameBallVars, entityVars, archVars>>
    /\ UNCHANGED <<physBodyVars, upgradeCall, ecoVars, lifecycleVars>>

(***************************************************************************)
(* Specifications                                                          *)
(***************************************************************************)
\* The state after the constructors.  hasAmmo: physicsWorld.Ammo was loaded
\* when the DungBall entity was constructed, so that initPhysics made a body.
InitRest(hasAmmo) ==
    /\ stats = initialStats
    /\ beetleVel = <<0, 0, 0>>
    /\ ballVel = <<0, 0, 0>>
    /\ ballForce = <<0, 0>>
    /\ body = hasAmmo
    /\ currentRadius = radius
    /\ shapeRadius = radius
    /\ bodyMass = MassOf(radius)
    /\ bodyVel = AtRest
    /\ size = initialSize
    /\ mass = initialMass
    /\ piecesCalls = 0
    /\ impactGiven = FALSE
    /\ ballBody = BodyFor(initialSize)
    /\ worldBodies = {BodyFor(initialSize)}
    /\ upgradeCall = NoCall
    /\ isInitialized = FALSE
    /\ lastTime = 0
    /\ controlsKeys = NoKeys
    /\ velocity = 0
    /\ position = 0
    /\ solverDts = <<>>
    /\ positionY = height
    /\ velocityY = 0
    /\ distanceNorth = 0
    /\ currentEcosystem = "grassland"
    /\ attempts = 0
    /\ waitState = "none"
    /\ physicsWorld = NewPhysicsWorld
    /\ ammoPending = FALSE
    /\ userData = [o \in Meshes |-> 0]
    /\ groundBody = 0
    /\ nextBody = 1
    /\ bodyCall = NoBodyCall
    /\ isInitializing = FALSE
    /\ initAwaiting = FALSE
    /\ pendingFrames = 0
    /\ waiter = "none"
    /\ windowListeners = {}
    /\ nextFn = 1
    /\ controlsObjs = <<>>
    /\ lastOp = "constructor"

InitWith(hasAmmo) ==
    /\ attachedBall = NoBall
    /\ constraint = NoConstraint
    /\ worldConstraints = {}
    /\ InitRest(hasAmmo)

Init == InitWith(TRUE)

\* The state after Game.init of game-architecture.js, which ends with
\* this.beetle.attachToBall(this.dungBall): attached, the ball at rest.
InitPush ==
    /\ attachedBall = DungBallOfGame
    /\ constraint = [id |-> 1, ball |-> DungBallOfGame]
    /\ worldConstraints = {[id |-> 1, ball |-> DungBallOfGame]}
    /\ InitRest(TRUE)

InitBall == \E hasAmmo \in BOOLEAN : InitWith(hasAmmo)

Next ==
    \/ attachToBall(DungBallOfGame)
    \/ detachFromBall
    \/ \E d \in Directions, s \in Strengths :
          pushBall(d, s) /\ InForceBound(ballForce')
    \/ \E d \in Directions : push(d)
    \/ \E keys \in [forward : BOOLEAN, backward : BOOLEAN] : Controls_update(keys)
    \/ gameLoop /\ distanceNorth' = distanceNorth

Spec == Init /\ [][Next]_vars

NextLink ==
    \/ \E b \in Balls : attachToBall(b)
    \/ \E b \in Balls : attachToBall_throws(b)
    \/ detachFromBall

SpecLink == Init /\ [][NextLink]_vars

NextBall ==
    \/ EntityBall_update
    \/ \E a \in DamageAmounts : EntityBall_damage(a)
    \/ EntityBall_step

SpecBall == InitBall /\ [][NextBall]_vars

NextArch ==
    \/ \E a \in GrowAmounts : grow(a)
    \/ \E a \in ArchDamageAmounts, p \in BOOLEAN : damage(a, p)
    \/ \E t \in TerrainTypes, s \in BOOLEAN : updateTerrainInteractions(t, s)
    \/ gameLoop /\ distanceNorth' = distanceNorth

SpecArch == Init /\ [][NextArch]_vars

NextUpgrade ==
    \/ \E n \in UpgradeStats, a \in UpgradeAmounts : upgrade(n, a)
    \/ \E a \in GrowAmounts : grow(a)
    \/ \E a \in ArchDamageAmounts, p \in BOOLEAN : damage(a, p)

SpecUpgrade == Init /\ [][NextUpgrade]_vars

NextPush ==
    \/ \E d \in Directions, s \in PushStrengths :
          pushBall(d, s) /\ InPushBound(ballForce')
    \/ physicsUpdate_pushOnly

SpecPush == InitPush /\ [][NextPush]_vars

NextLoop ==
    \/ \E t \in StartTimes : Game_init(t)
    \/ \E c \in KeyCodes : onKeyDown(c)
    \/ \E c \in KeyCodes : onKeyUp(c)
    \/ \E g \in FrameGaps : animate(g)

SpecLoop == Init /\ [][NextLoop]_vars

\* The game loop with the beetle advancing to the north.
NextEco ==
    \/ gameLoop
    \/ \E d \in Directions : push(d)

SpecEco == InitPush /\ [][NextEco]_vars

\* The PhysicsWorld used directly and through Ground.
NextWorld ==
    \/ PhysicsWorld_init
    \/ Ammo_resolves
    \/ Ammo_rejects
    \/ \E m \in Meshes : addRigidBody(MeshHandle(m))
    \/ \E m \in Meshes : removeRigidBody(MeshHandle(m))
    \/ \E b \in Bodies : b < nextBody /\ removeRigidBody(BodyHandle(b))
    \/ PhysicsWorld_dispose
    \/ Ground_init
    \/ Ground_dispose

SpecWorld == Init /\ [][NextWorld]_vars

\* The wait of Game.init for the physics world; the world is initialized,
\* or fails to be, by its own init() at any time during the wait.
NextWait ==
    \/ Game_init_wait
    \/ checkPhysics
    \/ waitState # "none" /\ PhysicsWorld_init
    \/ Ammo_resolves
    \/ Ammo_rejects

\* A timer that was set fires.
SpecWait == Init /\ [][NextWait]_vars /\ WF_vars(checkPhysics)

\* Controls objects made and disposed, and the key events of window.
NextControls ==
    \/ Controls_constructor
    \/ \E k \in 1 .. MaxFns : Controls_dispose(k)
    \/ \E c \in KeyCodes : keyEvent("keydown", c)
    \/ \E c \in KeyCodes : keyEvent("keyup", c)

SpecControls == Init /\ [][NextControls]_vars

\* The life of one Game: init and dispose called in any order, the frames
\* and timers firing in any order.  A pending timer fires, the promise of
\* Ammo.default() settles, and a requested frame is run.
NextLife ==
    \/ Game_init_start
    \/ Game_init_resume
    \/ Game_init_rejects
    \/ Game_dispose
    \/ animate_callback
    \/ waitForInit
    \/ checkInit

SpecLife ==
    /\ Init
    /\ [][NextLife]_vars
    /\ WF_vars(checkInit)
    /\ WF_vars(Game_init_resume \/ Game_init_rejects)
    /\ WF_vars(animate_callback)

NextBeetle ==
    \/ \E d \in MoveDirections, s \in MoveSpeeds : setMovement(d, s)
    \/ \E dt \in DeltaTimes : Beetle_update(dt)

SpecBeetle == Init /\ [][NextBeetle]_vars

(***************************************************************************)
(* Claims                                                                  *)
(***************************************************************************)
Attached == attachedBall # NoBall

\* The thresholds as the claims state them, speeds in 1/2 m/s.
SpeedAtLeastTop == PlanarSpeedSq(ballVel) >= (2 * stats.topSpeed) * (2 * stats.topSpeed)
SpeedAtThreshold == PlanarSpeedSq(ballVel) = (3 * stats.topSpeed) * (3 * stats.topSpeed)
SpeedAboveThreshold == PlanarSpeedSq(ballVel) > (3 * stats.topSpeed) * (3 * stats.topSpeed)

\* C1: an attachToBall issued while the beetle already has a link fails and
\* leaves the existing link (attachedBall and the registered constraint)
\* untouched.
C1_SecondAttachLeavesLink ==
    [][(lastOp' = "attachToBall" /\ Attached)
         => UNCHANGED <<attachedBall, constraint, worldConstraints>>]_vars

\* C2: whatever damage and growth the ball has gone through, its radius is
\* at least the minimum radius 0.5.
C2_RadiusFloor == currentRadius >= radius

\* C2 witness: a damage has just driven the ball down to the minimum.
C2_Witness == lastOp = "damage" /\ currentRadius = radius /\ body

\* C3: after every tick of the game loop, a ball that is above 1.5 x
\* topSpeed no longer has the beetle attached, whether or not the tick
\* pushed the ball.
C3_OverspeedDetachesEveryTick ==
    lastOp = "gameLoop" => ~(Attached /\ SpeedAboveThreshold)

\* C4: while attached, with the ball at or below 1.5 x topSpeed, no step
\* other than an explicit detachFromBall detaches the beetle.
C4_NoDetachAtOrBelowThreshold ==
    [][(Attached /\ ~SpeedAboveThreshold /\ lastOp' # "detachFromBall")
         => attachedBall' # NoBall]_vars

\* C4 witness: pushBall has run with the ball at exactly 1.5 x topSpeed and
\* the beetle is still attached.
C4_Witness == lastOp = "pushBall" /\ Attached /\ SpeedAtThreshold

\* C5: a push made while the ball's planar speed is at least topSpeed
\* applies no force to the ball and leaves its velocity as it was.
C5_NoForceAtTopSpeed ==
    [][(lastOp' \in {"push", "pushBall"} /\ SpeedAtLeastTop)
         => (ballForce' = ballForce /\ ballVel' = ballVel)]_vars

\* C6: the ball's mass is massScaleFactor x (size / baseSize)^3 in every
\* state, so it depends on the current size alone.
C6_MassVolumeLaw ==
    mass * (initialSize * initialSize * initialSize)
        = initialMass * (size * size * size)

\* C7: the ball's radius never exceeds maxRadius.
C7_GrowthSaturates == currentRadius <= maxRadius

C9_FragmentsIffImpact ==
    lastOp = "damage" => piecesCalls = (IF impactGiven THEN 1 ELSE 0)

\* C10: an explicit detachFromBall leaves the velocity of the beetle body
\* unchanged (no throw impulse).
C10_ExplicitDetachNoImpulse ==
    [][lastOp' = "detachFromBall" => beetleVel' = beetleVel]_vars

\* C11: every overspeed detach (a pushBall that takes the beetle from
\* attached to detached) changes the velocity of the beetle body by exactly
\* one throw impulse, and that impulse has a strictly positive y component,
\* so it is not zero.
C11_OverspeedDetachThrowsUpward ==
    [][(lastOp' = "pushBall" /\ Attached /\ attachedBall' = NoBall)
         => /\ beetleVel'[2] - beetleVel[2] > 0
            /\ \E tx \in -2 .. 1, ty \in 2 .. 5, tz \in -2 .. 1 :
                  beetleVel' = <<beetleVel[1] + beetleInvMass * tx,
                                 beetleVel[2] + beetleInvMass * ty,
                                 beetleVel[3] + beetleInvMass * tz>>]_vars

\* C11 witness: a pushBall has just detached the beetle and left it moving
\* upward.
C11_Witness == lastOp = "pushBall" /\ ~Attached /\ beetleVel[2] > 0

\* C12: an attachToBall that the engine refuses, made while detached with
\* no constraint registered, leaves the beetle detached: attachedBall is
\* still null and no constraint is registered.
C12_RefusedAttachStaysDetached ==
    [][(lastOp' = "attachToBall throws" /\ ~Attached /\ worldConstraints = {})
         => (attachedBall' = NoBall /\ constraint' = NoConstraint
             /\ worldConstraints' = {})]_vars

\* C13: upgrade called with a name that is not one of the beetle's stats
\* returns false and leaves every stat and the size of the ball unchanged.
C13_UnknownStatRejected ==
    [][(lastOp' = "upgrade" /\ upgradeCall'.stat \notin DOMAIN initialStats)
         => (upgradeCall'.result = FALSE /\ stats' = stats /\ size' = size)]_vars

\* C13 witness: an upgrade of a name that is not a stat has returned false.
C13_Witness ==
    /\ lastOp = "upgrade"
    /\ upgradeCall.stat \notin DOMAIN initialStats
    /\ upgradeCall.result = FALSE

\* C14: an upgrade of a known stat succeeds only together with a shrink of
\* the ball: a call that returns true (or increases a stat) makes the ball
\* smaller, and a call made with the ball at the minimum size returns false
\* and leaves the stats as they were.
C14_UpgradeNeedsSacrifice ==
    [][lastOp' = "upgrade"
         => /\ (upgradeCall'.result \/ stats' # stats) => size' < size
            /\ size = minSize => (upgradeCall'.result = FALSE /\ stats' = stats)]_vars

\* C15: every time step handed to the solver is greater than 0 and at most
\* 0.1 s.
C15_SolverStepClamped ==
    \A i \in DOMAIN solverDts : 0 < solverDts[i] /\ solverDts[i] <= DtMax

\* C16: the movement made in a frame is the one the input asks for in that
\* frame: the beetle advances by the velocity of the keys held when the
\* frame runs, times the frame's delta (the input is not left for the
\* following frame to consume).
C16_InputConsumedInItsFrame ==
    [][(lastOp' = "animate" /\ isInitialized)
         => position' - position = VelocityFor(controlsKeys) * (lastTime' - lastTime)]_vars

\* C17: after the large-water terrain interaction, the size of the ball is
\* the minimum size, whatever it was before.
C17_DeepWaterLeavesMinimum == [][lastOp' = DeepWater => size' = minSize]_vars

\* C17 witness: the large-water interaction has run and the ball is at the
\* minimum size, its body rebuilt for it.
C17_Witness == lastOp = DeepWater /\ size = minSize /\ ballBody = BodyFor(minSize)

\* C18: only grow and damage change the radius of the ball: every other
\* operation, the per-tick update included, leaves it as it was.
C18_OnlyGrowAndDamageWriteRadius ==
    [][lastOp' \notin {"grow", "damage"}
         => (currentRadius' = currentRadius /\ size' = size)]_vars

\* C19: whenever a solver step runs, exactly one body of the ball is
\* registered in the world, and it is the ball's current body, with the
\* collision radius and the mass of the ball's current size.
C19_OneMatchingBodyAtStep ==
    [][lastOp' = "gameLoop"
         => /\ worldBodies = {ballBody}
            /\ ballBody.size = size
            /\ ballBody.massOf = size]_vars

\* C19 witness: a solver step has run with a ball that was resized.
C19_Witness ==
    /\ lastOp = "gameLoop"
    /\ size # initialSize
    /\ worldBodies = {BodyFor(size)}

\* C20: starting attached with the ball below topSpeed, pushBall calls and
\* physics steps in which the pushes are the only force never detach the
\* beetle.
C20_PushingNeverDetaches ==
    [][(Attached /\ lastOp' \in {"pushBall", "physicsUpdate"})
         => attachedBall' # NoBall]_vars

EcosystemsAt(d) ==
    {e \in {"grassland", "forest", "desert", "snow"} :
        \/ e = "grassland" /\ 0 <= d /\ d <= 1000
        \/ e = "forest" /\ 1000 <= d /\ d <= 2000
        \/ e = "desert" /\ 2000 <= d /\ d <= 3000
        \/ e = "snow" /\ 3000 <= d}

\* C22: after every game-loop tick, the current ecosystem is the one of the
\* distance band that contains distanceNorth: grassland for 0-1000 m,
\* forest for 1000-2000 m, desert for 2000-3000 m, snow from 3000 m on.
C22_EcosystemFollowsDistance ==
    lastOp = "gameLoop" => currentEcosystem \in EcosystemsAt(distanceNorth)

\* C24: in every reachable state, across any sequence of attach, detach
\* and failed attach operations, attachedBall is set if and only if a
\* beetle-ball constraint exists and is registered with the physics world,
\* and at most one such constraint is registered.
C24_LinkStateConsistent ==
    /\ Attached <=> (constraint # NoConstraint /\ constraint \in worldConstraints)
    /\ Cardinality(worldConstraints) <= 1

\* The simulation body that addRigidBody(object) put into the world.
BodyAddedFor(object, ud) ==
    IF object.type = "btRigidBody" THEN object.id ELSE ud[object.id]

\* TRUE iff rigidBodies holds an entry that addRigidBody(object) pushed.
WasAdded(pw, object) ==
    \E i \in DOMAIN pw.rigidBodies :
        pw.rigidBodies[i] = IF object.type = "btRigidBody"
                            THEN TempObject(object.id) ELSE object

\* C25: for any body b added with addRigidBody(b) on an initialized world,
\* a later removeRigidBody(b) removes b from the simulation world and from
\* the tracked rigidBodies list.
C25_AddRemoveRoundTrip ==
    [][LET b == BodyAddedFor(bodyCall'.object, userData)
       IN  (/\ lastOp' = "removeRigidBody"
            /\ physicsWorld.initialized
            /\ WasAdded(physicsWorld, bodyCall'.object)
            /\ b # 0
            /\ b \in physicsWorld.bodies
            /\ physicsWorld.destroyCalls[b] = 0)
           => /\ b \notin physicsWorld'.bodies
              /\ Len(physicsWorld'.rigidBodies) = Len(physicsWorld.rigidBodies) - 1]_vars

\* C28: whenever a promise returned by PhysicsWorld.init() resolves, the
\* physics world is initialized (initialized is true and world exists),
\* also when init() is called while an earlier init() is still in progress.
C28_InitResolvedMeansInitialized ==
    [][lastOp' = "PhysicsWorld.init resolves"
          => (physicsWorld'.initialized /\ physicsWorld'.world)]_vars

\* C23: the wait for the physics world in Game.init always terminates: it
\* resolves at the first check that sees physicsWorld.initialized true,
\* otherwise it rejects after at most maxAttempts (50) timer polls; it never
\* polls forever.
C23_PhysicsWaitTerminates ==
    /\ [](attempts <= maxAttempts)
    /\ [][(lastOp' \in {"checkPhysics", "Game.init waits"}
            /\ physicsWorld'.initialized) => waitState' = "resolved"]_vars
    /\ [](waitState = "rejected" => attempts = maxAttempts)
    /\ (waitState = "pending") ~> (waitState \in {"resolved", "rejected"})

C23_Witness ==
    /\ lastOp = "checkPhysics"
    /\ waitState = "rejected"
    /\ attempts = maxAttempts
    /\ ~physicsWorld.initialized

\* C26: during Game.dispose (entities first, then PhysicsWorld.dispose)
\* every physics body is removed from the world before it is destroyed and
\* is destroyed at most once: no body still registered in the world or in
\* rigidBodies is ever destroyed.
C26_BodiesDestroyedOnceAfterRemoval ==
    \A b \in Bodies :
        /\ physicsWorld.destroyCalls[b] <= 1
        /\ b \notin physicsWorld.destroyedLive

\* C27: at most one animation loop is live per Game, for any sequence of
\* init() and dispose() calls and any order of the pending frame callbacks,
\* and no animate call does a frame's work while the game is not
\* initialized.
C27_OneAnimationLoop ==
    /\ pendingFrames <= 1
    /\ lastOp = "animate frame" => isInitialized

\* C29: after Controls.dispose() the listeners that Controls.init installed
\* are gone: key events no longer change the key state of a disposed
\* Controls, and create/dispose cycles do not accumulate listeners.
C29_DisposedControlsHearNothing ==
    [][/\ lastOp' \in {"keydown", "keyup"} =>
            \A k \in DOMAIN controlsObjs :
                controlsObjs[k].disposed => controlsObjs'[k] = controlsObjs[k]
       /\ \A l \in windowListeners' : ~controlsObjs'[l.controls].disposed]_vars

\* C30: a promise returned by waitForInit() settles once init() has been
\* invoked: it does not stay pending forever, whether init() completes or
\* fails.
C30_WaitForInitSettles ==
    (waiter = "pending" /\ isInitializing) ~> (waiter # "pending")

====
